---- MODULE Spec2Model ----
(***************************************************************************)
(* cursor_mapper (src/src/main.cpp): the monitor topology snapshot and its *)
(* signature, the exit-edge intersection, the proportional remap, and the  *)
(* low-level mouse hook with its two re-entrancy guards.                   *)
(*                                                                         *)
(* Characters are their codes (',' = 44, ';' = 59, '0' = 48, '-' = 45), a  *)
(* string is a sequence of codes.  A double is the exact rational          *)
(* <<num, den>> with den > 0.  On the rectangles and points of this        *)
(* specification every quotient has a small denominator, so two different  *)
(* values differ by far more than the 1e-9 tolerance of FindExitEdge, and   *)
(* no product handed to lround is an inexact half: the exact evaluation    *)
(* gives the results of the IEEE double evaluation there (compared by      *)
(* enumeration of all segments and rectangle pairs of the grid).           *)
(***************************************************************************)
EXTENDS Integers, Sequences, FiniteSets, TLC

\* ------------------------------------------------------------------ bounds
\* Move events carry a point of the grid 0..MaxX x 0..MaxY.
MaxX == 5
MaxY == 3
\* Cap on the number of handler invocations suspended inside SetCursorPos.
MaxDepth == 3
\* The geometry functions called on their own take rectangles with
\* coordinates in 0..GeomMax.
GeomMax == 3

\* ------------------------------------------------------- program constants
LONG_MIN == -2147483647 - 1
CCHDEVICENAME == 32
NULL == 0

Rect(l, t, r, b) == [left |-> l, top |-> t, right |-> r, bottom |-> b]
Point(px, py) == [x |-> px, y |-> py]
UnknownPos == Point(LONG_MIN, LONG_MIN)
MonitorInfo(h, r, p, d) == [handle |-> h, rc |-> r, primary |-> p, device |-> d]

\* --------------------------------------------------- topology signature
\* device[i] of the fixed WCHAR[CCHDEVICENAME] array: the name, then zeros.
DeviceAt(d, i) == IF i <= Len(d) THEN d[i] ELSE 0

\* wmemcmp(a, b, n) from element i on: negative, zero or positive.
RECURSIVE wmemcmp(_, _, _, _)
wmemcmp(a, b, i, n) ==
  IF i > n THEN 0
  ELSE IF DeviceAt(a, i) # DeviceAt(b, i) THEN DeviceAt(a, i) - DeviceAt(b, i)
  ELSE wmemcmp(a, b, i + 1, n)

\* The comparator of the sort: device, then rc.left, then rc.top.
MonitorLess(a, b) ==
  LET cmp == wmemcmp(a.device, b.device, 1, CCHDEVICENAME)
  IN  IF cmp # 0 THEN cmp < 0
      ELSE IF a.rc.left # b.rc.left THEN a.rc.left < b.rc.left
      ELSE a.rc.top < b.rc.top

\* Insert m into the sorted sequence s after every element not greater than
\* it (the insertion step std::sort uses for short ranges).
RECURSIVE InsertSorted(_, _)
InsertSorted(s, m) ==
  IF s = <<>> THEN <<m>>
  ELSE IF MonitorLess(m, s[Len(s)]) THEN Append(InsertSorted(SubSeq(s, 1, Len(s) - 1), m), s[Len(s)])
  ELSE Append(s, m)

RECURSIVE SortMonitors(_)
SortMonitors(mons) ==
  IF mons = <<>> THEN <<>>
  ELSE InsertSorted(SortMonitors(SubSeq(mons, 1, Len(mons) - 1)), mons[Len(mons)])

\* The decimal digits of n >= 0.
RECURSIVE FormatDigits(_)
FormatDigits(n) ==
  IF n < 10 THEN <<48 + n>>
  ELSE Append(FormatDigits(n \div 10), 48 + (n % 10))

\* "%ld"
FormatLong(n) == IF n < 0 THEN <<45>> \o FormatDigits(-n) ELSE FormatDigits(n)

\* The characters of the device name up to the first zero, each narrowed to
\* a char.
RECURSIVE NarrowDevice(_, _)
NarrowDevice(d, i) ==
  IF i > CCHDEVICENAME \/ DeviceAt(d, i) = 0 THEN <<>>
  ELSE <<DeviceAt(d, i) % 256>> \o NarrowDevice(d, i + 1)

\* "%ld,%ld,%ld,%ld,%d," then the device name, then ';'.
FormatMonitor(m) ==
  FormatLong(m.rc.left) \o <<44>> \o FormatLong(m.rc.top) \o <<44>> \o
  FormatLong(m.rc.right) \o <<44>> \o FormatLong(m.rc.bottom) \o <<44>> \o
  FormatLong(IF m.primary THEN 1 ELSE 0) \o <<44>> \o
  NarrowDevice(m.device, 1) \o <<59>>

RECURSIVE ConcatMonitors(_)
ConcatMonitors(mons) ==
  IF mons = <<>> THEN <<>>
  ELSE ConcatMonitors(SubSeq(mons, 1, Len(mons) - 1)) \o FormatMonitor(mons[Len(mons)])

\* BuildTopoSignature sorts its argument in place and returns the signature:
\* here the pair of both.
BuildTopoSignature(mons) ==
  LET sorted == SortMonitors(mons)
  IN  [mons |-> sorted, sig |-> ConcatMonitors(sorted)]

\* ------------------------------------------------------- exact rationals
\* n / d for d # 0, as <<num, den>> with den > 0.
Div(n, d) == IF d > 0 THEN <<n, d>> ELSE <<-n, -d>>
RatLt(a, b) == a[1] * b[2] < b[1] * a[2]
RatEq(a, b) == a[1] * b[2] = b[1] * a[2]
RatLe(a, b) == a[1] * b[2] <= b[1] * a[2]
Int2Rat(n) == <<n, 1>>
Abs(n) == IF n < 0 THEN -n ELSE n

\* ------------------------------------------------------------ FindExitEdge
\* A best hit that starts at t = 0: no later crossing can replace it.
NoHitAtStart == [edge |-> "None", t |-> <<0, 1>>, coord |-> <<0, 1>>]

\* HitResult best{Edge::None, 2.0, 0.0}
NoHit == [edge |-> "None", t |-> <<2, 1>>, coord |-> <<0, 1>>]

\* tryEdge without the outward test for a start point on the boundary.
tryEdgeInward(best, e, t, along, dx, dy) ==
  LET cand == [edge |-> e, t |-> t, coord |-> along]
      horiz == e \in {"Left", "Right"}
  IN  IF RatLt(t, <<0, 1>>) \/ RatLt(<<1, 1>>, t) THEN best
      ELSE IF RatLt(t, best.t) THEN cand
      ELSE IF RatEq(t, best.t)
           THEN IF horiz /\ Abs(dx) >= Abs(dy) THEN cand
                ELSE IF ~horiz /\ Abs(dy) > Abs(dx) THEN cand
                ELSE best
      ELSE best

\* tryEdge without the tie-break: of two crossings at one t the first stays.
tryEdgeFirstWins(best, e, t, along, dx, dy) ==
  LET outward == \/ (e = "Left" /\ dx < 0)
                 \/ (e = "Right" /\ dx > 0)
                 \/ (e = "Top" /\ dy < 0)
                 \/ (e = "Bottom" /\ dy > 0)
  IN  IF RatLt(t, <<0, 1>>) \/ RatLt(<<1, 1>>, t) THEN best
      ELSE IF RatLe(t, <<0, 1>>) /\ ~outward THEN best
      ELSE IF RatLt(t, best.t) THEN [edge |-> e, t |-> t, coord |-> along]
      ELSE best

\* The lambda tryEdge: the best hit after the candidate (e, t, along).
\* t < -1e-9 is t < 0, t < 1e-9 is t <= 0, t < best.t - 1e-9 is t < best.t and
\* |t - best.t| < 1e-9 is t = best.t on these rationals.
tryEdge(best, e, t, along, dx, dy) ==
  LET outward == \/ (e = "Left" /\ dx < 0)
                 \/ (e = "Right" /\ dx > 0)
                 \/ (e = "Top" /\ dy < 0)
                 \/ (e = "Bottom" /\ dy > 0)
      horiz == e \in {"Left", "Right"}
      cand == [edge |-> e, t |-> t, coord |-> along]
  IN  IF RatLt(t, Int2Rat(0)) \/ RatLt(Int2Rat(1), t) THEN best
      ELSE IF RatLe(t, Int2Rat(0)) /\ ~outward THEN best
      ELSE IF RatLt(t, best.t) THEN cand
      ELSE IF RatEq(t, best.t)
           THEN IF horiz /\ Abs(dx) >= Abs(dy) THEN cand
                ELSE IF ~horiz /\ Abs(dy) > Abs(dx) THEN cand
                ELSE best
      ELSE best

\* One boundary line x = bound (vertical = TRUE) or y = bound: the segment
\* parameter t where the segment meets it and the coordinate along the line,
\* tried only when the segment has extent on that axis and the coordinate
\* lies in the closed extent [lo, hi] of the rectangle.
EdgeStep(best, e, vertical, bound, lo, hi, p0, dx, dy) ==
  LET d == IF vertical THEN dx ELSE dy
      from == IF vertical THEN p0.x ELSE p0.y
      t == Div(bound - from, d)
      \* p0.y + t * dy (or p0.x + t * dx) over the denominator d
      along == IF vertical THEN Div(p0.y * dx + (bound - p0.x) * dy, dx)
               ELSE Div(p0.x * dy + (bound - p0.y) * dx, dy)
  IN  IF d = 0 THEN best
      ELSE IF RatLe(Int2Rat(lo), along) /\ RatLe(along, Int2Rat(hi))
           THEN tryEdge(best, e, t, along, dx, dy)
      ELSE best

FindExitEdge(p0, p1, rc) ==
  LET dx == p1.x - p0.x
      dy == p1.y - p0.y
      b1 == EdgeStep(NoHit, "Right", TRUE, rc.right, rc.top, rc.bottom, p0, dx, dy)
      b2 == EdgeStep(b1, "Left", TRUE, rc.left, rc.top, rc.bottom, p0, dx, dy)
      b3 == EdgeStep(b2, "Bottom", FALSE, rc.bottom, rc.left, rc.right, p0, dx, dy)
      b4 == EdgeStep(b3, "Top", FALSE, rc.top, rc.left, rc.right, p0, dx, dy)
  IN  b4

\* ------------------------------------------------------------- RemapCursor
Max(a, b) == IF a >= b THEN a ELSE b
Min(a, b) == IF a <= b THEN a ELSE b

\* std::lround of the rational r >= 0: halves round away from zero.
LRound(r) == (2 * r[1] + r[2]) \div (2 * r[2])

\* std::clamp(v, lo, hi).  With hi < lo the call has undefined behaviour:
\* the library returns lo or hi depending on the order of its two tests.
Clamp(v, lo, hi) ==
  IF lo <= hi THEN {IF v < lo THEN lo ELSE IF hi < v THEN hi ELSE v}
  ELSE {lo, hi}

\* A test that rejects empty rectangles only, whatever their overlap.
RejectsEmptyOnly(ovStart, ovEnd, srcLen, dstLen) == srcLen <= 0 \/ dstLen <= 0

\* The adjacency test: no overlap on the shared axis, or an empty extent.
Rejects(ovStart, ovEnd, srcLen, dstLen) ==
  ovEnd - ovStart <= 0 \/ srcLen <= 0 \/ dstLen <= 0

\* The results RemapCursor can return: [ok, out].
RemapCursor(src, dst, edge, hitCoord) ==
  LET lr == edge \in {"Left", "Right"}
      ovStart == IF lr THEN Max(src.top, dst.top) ELSE Max(src.left, dst.left)
      ovEnd == IF lr THEN Min(src.bottom, dst.bottom) ELSE Min(src.right, dst.right)
      srcStart == IF lr THEN src.top ELSE src.left
      srcEnd == IF lr THEN src.bottom ELSE src.right
      dstStart == IF lr THEN dst.top ELSE dst.left
      dstEnd == IF lr THEN dst.bottom ELSE dst.right
      srcLen == srcEnd - srcStart
      dstLen == dstEnd - dstStart
      raw == <<hitCoord[1] - srcStart * hitCoord[2], hitCoord[2] * srcLen>>
      pct == IF RatLt(raw, Int2Rat(0)) THEN Int2Rat(0)
             ELSE IF RatLt(Int2Rat(1), raw) THEN Int2Rat(1)
             ELSE raw
      mapped0 == dstStart + LRound(<<pct[1] * dstLen, pct[2]>>)
      fail == [ok |-> FALSE, out |-> Point(0, 0)]
  IN  IF Rejects(ovStart, ovEnd, srcLen, dstLen) THEN {fail}
      ELSE IF edge = "None" THEN {fail}
      ELSE { [ok |-> TRUE,
              out |-> CASE edge = "Right" -> Point(dst.left + 1, mapped)
                        [] edge = "Left" -> Point(dst.right - 2, mapped)
                        [] edge = "Bottom" -> Point(mapped, dst.top + 1)
                        [] edge = "Top" -> Point(mapped, dst.bottom - 2)] :
             mapped \in Clamp(mapped0, dstStart + 1, dstEnd - 2) }

\* ------------------------------------------------------------------ state
VARIABLES
  displays,         \* the displays the system has now (what the OS calls report)
  g_monitors,       \* the held snapshot
  g_topoSignature,  \* the held signature
  g_lastMonitor,    \* last-known display handle, NULL when unknown
  g_lastPos,        \* last-known position, UnknownPos when unknown
  g_suppressing,    \* the suppression flag
  pc,               \* "start" before main's first refresh, "running", "exited"
  stack,            \* the hook invocations suspended inside SetCursorPos
  enumerated,       \* the records the latest refresh enumerated, in its order
  last,             \* what the latest step did (an observation, not program state)
  relocs,           \* SetCursorPos calls since the latest top-level move event
  afterChanged,     \* "no", or since no move event came after it a refresh
                    \* reported "changed": "reset" when it discarded a recorded
                    \* position, "fresh" when none was recorded
  args,             \* the arguments of a geometry function called on its own
  ret               \* what that call returned

vars == <<displays, g_monitors, g_topoSignature, g_lastMonitor, g_lastPos,
          g_suppressing, pc, stack, enumerated, last, relocs, afterChanged,
          args, ret>>

\* ------------------------------------------------- the displays offered
\* Device names: "A", "B" and a name that holds the separator characters,
\* "A;3,0,6,4,0,B".
NameA == <<65>>
NameB == <<66>>
NameSep == <<65, 59, 51, 44, 48, 44, 54, 44, 52, 44, 48, 44, 66>>

MonA == MonitorInfo(1, Rect(0, 0, 3, 3), TRUE, NameA)
MonB == MonitorInfo(2, Rect(3, 0, 6, 4), FALSE, NameB)
\* MonB after it was reconnected: the same display under a new handle
MonB3 == MonitorInfo(3, Rect(3, 0, 6, 4), FALSE, NameB)
\* MonB moved down in the arrangement, handle kept
MonBlow == MonitorInfo(2, Rect(3, 2, 6, 5), FALSE, NameB)
\* a record with the device name, left and top of MonA
MonTie == MonitorInfo(2, Rect(0, 0, 4, 3), FALSE, NameA)
\* one display whose record formats like MonA followed by MonB
MonSep == MonitorInfo(1, Rect(0, 0, 3, 3), TRUE, NameSep)

Layouts == { {}, {MonA, MonB}, {MonA, MonB3}, {MonA, MonBlow},
             {MonA, MonTie}, {MonSep} }

Points == {Point(px, py) : px \in 0..MaxX, py \in 0..MaxY}

\* ------------------------------------------------------------ OS queries
\* Containment is half-open: right and bottom are outside.
Contains(rc, pt) ==
  rc.left <= pt.x /\ pt.x < rc.right /\ rc.top <= pt.y /\ pt.y < rc.bottom

\* MonitorFromPoint(pt, MONITOR_DEFAULTTONULL): the handles it can return.
MonitorFromPoint(pt) ==
  LET hit == {d.handle : d \in {m \in displays : Contains(m.rc, pt)}}
  IN  IF hit = {} THEN {NULL} ELSE hit

RECURSIVE Perms(_)
Perms(S) ==
  IF S = {} THEN {<<>>}
  ELSE UNION {{Append(p, e) : p \in Perms(S \ {e})} : e \in S}

\* EnumDisplayMonitors with MonitorEnumProc: the displays in any order, less
\* those for which GetMonitorInfoW fails.
EnumDisplayMonitors == UNION {Perms(T) : T \in SUBSET displays}

\* ----------------------------------------------------------- the snapshot
\* FindMonitor: the index in g_monitors of the first record with handle h,
\* 0 for nullptr.
FindMonitor(h) ==
  LET idx == {i \in 1..Len(g_monitors) : g_monitors[i].handle = h}
  IN  IF idx = {} THEN 0 ELSE CHOOSE i \in idx : \A j \in idx : i <= j

NoEvent ==
  [kind |-> "none", path |-> "none", ret |-> "none", injected |-> FALSE,
   nested |-> FALSE, would |-> FALSE, pt |-> UnknownPos, mapped |-> UnknownPos,
   changed |-> FALSE, first |-> "no"]

\* The comparison of RefreshMonitors: the fresh signature differs.
TopoChanged(sig) == sig # g_topoSignature

\* A refresh that kept the recorded display and position.
KeepTracking == UNCHANGED <<g_lastMonitor, g_lastPos>>

\* The reset of the tracking state by a refresh that found a change.
ResetTracking == g_lastMonitor' = NULL /\ g_lastPos' = UnknownPos

\* RefreshMonitors with the enumeration fresh.
RefreshMonitors(fresh) ==
  LET b == BuildTopoSignature(fresh)
  IN  /\ enumerated' = fresh
      /\ last' = [NoEvent EXCEPT !.kind = "refresh", !.changed = TopoChanged(b.sig)]
      /\ IF TopoChanged(b.sig)
         THEN /\ g_monitors' = b.mons
              /\ g_topoSignature' = b.sig
              /\ ResetTracking
              /\ afterChanged' = IF g_lastMonitor # NULL /\ g_lastPos # UnknownPos
                                 THEN "reset" ELSE "fresh"
         ELSE UNCHANGED <<g_monitors, g_topoSignature, g_lastMonitor, g_lastPos,
                          afterChanged>>

\* main up to the message loop: the first refresh, fatal with no monitors.
Main ==
  /\ pc = "start"
  /\ \E fresh \in EnumDisplayMonitors : RefreshMonitors(fresh)
  /\ pc' = IF g_monitors' = <<>> THEN "exited" ELSE "running"
  /\ UNCHANGED <<displays, g_suppressing, stack, relocs, args, ret>>

\* WndProc on WM_DISPLAYCHANGE, WM_SETTINGCHANGE or the topology timer.
WndProc ==
  /\ pc = "running"
  /\ stack = <<>>
  /\ \E fresh \in EnumDisplayMonitors : RefreshMonitors(fresh)
  /\ UNCHANGED <<displays, g_suppressing, pc, stack, relocs, args, ret>>

\* The arrangement of displays changes; the program is told later.
DisplayChange ==
  /\ stack = <<>>
  /\ pc # "exited"
  /\ \E l \in Layouts : l # displays /\ displays' = l
  /\ last' = [NoEvent EXCEPT !.kind = "display"]
  /\ UNCHANGED <<g_monitors, g_topoSignature, g_lastMonitor, g_lastPos,
                 g_suppressing, pc, stack, enumerated, relocs, afterChanged,
                 args, ret>>

\* ------------------------------------------------------------ the hook
\* A test that takes a move inside one display for a candidate crossing.
IsCrossingSameDisplay(curMon) ==
  g_lastMonitor # NULL /\ g_lastPos.x # LONG_MIN

\* The test that makes a move a candidate crossing.
IsCrossing(curMon) ==
  g_lastMonitor # NULL /\ curMon # g_lastMonitor /\ g_lastPos.x # LONG_MIN

NoCall(path) == [path |-> path, mapped |-> UnknownPos]

\* The crossing block: the ways it can end for the event at pt on display
\* curMon.  "reloc" asks for SetCursorPos(mapped); every other path falls
\* through to the tracking update.
Crossing(pt, curMon) ==
  IF ~IsCrossing(curMon) THEN {NoCall("nocross")}
  ELSE LET src == FindMonitor(g_lastMonitor)
           dst == FindMonitor(curMon)
       IN  IF src = 0 \/ dst = 0 THEN {NoCall("lookupmiss")}
           ELSE LET hit == FindExitEdge(g_lastPos, pt, g_monitors[src].rc)
                IN  IF hit.edge = "None" THEN {NoCall("noedge")}
                    ELSE { IF ~r.ok THEN NoCall("remapfail")
                           ELSE IF r.out = pt THEN NoCall("samepoint")
                           ELSE [path |-> "reloc", mapped |-> r.out] :
                           r \in RemapCursor(g_monitors[src].rc, g_monitors[dst].rc,
                                             hit.edge, hit.coord) }

\* Whether an event at pt, were it handled past both guards, would ask for a
\* relocation.
WouldRemap(pt) ==
  \E curMon \in MonitorFromPoint(pt) :
    curMon # NULL /\ \E c \in Crossing(pt, curMon) : c.path = "reloc"

\* A hook without the primary guard.
SkipInjectedNever(injected) == FALSE

\* The primary guard: the event carries LLMHF_INJECTED.
SkipInjected(injected) == injected

\* A hook without the secondary guard.
SkipSuppressingNever == FALSE

\* The secondary guard: the hook runs inside its own SetCursorPos call.
SkipSuppressing == g_suppressing

\* The block at the label done: record the display at pt and pt, if there
\* is a display at pt.
TrackingUpdate(pt) ==
  \E cur \in MonitorFromPoint(pt) :
    IF cur # NULL
    THEN g_lastMonitor' = cur /\ g_lastPos' = pt
    ELSE UNCHANGED <<g_lastMonitor, g_lastPos>>

\* A hook that forgets its tracking state when no display holds the point.
NoDisplayForgets(pt) == g_lastMonitor' = NULL /\ g_lastPos' = UnknownPos

\* MonitorFromPoint returned NULL: the hook jumps to the label done, whose
\* update is guarded by the display found there.
NoDisplayAtPoint(pt) == TrackingUpdate(pt)

\* SetCursorPos calls counted from the latest top-level event.
RelocsBefore == IF stack = <<>> THEN 0 ELSE relocs

\* MouseHookProc for a WM_MOUSEMOVE at pt, up to its return or to its call
\* of SetCursorPos.  It is a nested invocation when stack is not empty.
MouseHookProc(pt, injected) ==
  LET ev == [NoEvent EXCEPT !.kind = "move", !.injected = injected,
                            !.nested = (stack # <<>>), !.first = afterChanged]
      guarded(path) ==
        /\ last' = [ev EXCEPT !.path = path, !.ret = "pass", !.would = WouldRemap(pt)]
        /\ relocs' = RelocsBefore
        /\ UNCHANGED <<g_lastMonitor, g_lastPos, g_suppressing, stack>>
  IN  /\ pc = "running"
      /\ afterChanged' = "no"
      /\ UNCHANGED <<displays, g_monitors, g_topoSignature, pc, enumerated,
                     args, ret>>
      /\ IF SkipInjected(injected) THEN guarded("injected")
         ELSE IF SkipSuppressing THEN guarded("suppressing")
         ELSE \E curMon \in MonitorFromPoint(pt) :
           IF curMon = NULL
           THEN /\ NoDisplayAtPoint(pt)
                /\ last' = [ev EXCEPT !.path = "miss", !.ret = "pass",
                                      !.would = WouldRemap(pt), !.pt = pt]
                /\ relocs' = RelocsBefore
                /\ UNCHANGED <<g_suppressing, stack>>
           ELSE \E c \in Crossing(pt, curMon) :
             IF c.path = "reloc"
             THEN /\ Len(stack) < MaxDepth
                  /\ g_suppressing' = TRUE
                  /\ stack' = Append(stack, [pt |-> pt, mapped |-> c.mapped, ev |-> ev])
                  /\ last' = [ev EXCEPT !.kind = "call", !.path = "reloc",
                                        !.pt = pt, !.mapped = c.mapped]
                  /\ relocs' = RelocsBefore + 1
                  /\ UNCHANGED <<g_lastMonitor, g_lastPos>>
             ELSE /\ TrackingUpdate(pt)
                  /\ last' = [ev EXCEPT !.path = c.path, !.ret = "pass", !.pt = pt]
                  /\ relocs' = RelocsBefore
                  /\ UNCHANGED <<g_suppressing, stack>>

\* The display recorded after a relocation that succeeded.
RelocatedMonitor(f) == MonitorFromPoint(f.mapped)

\* The position recorded after a relocation that succeeded.
RelocatedPos(f) == f.mapped

\* A hook that suppresses the event whatever SetCursorPos returned.
HookResultAlwaysSuppress(ok) == "suppress"

\* The value of the hook when SetCursorPos returned ok: 1 suppresses the
\* event, CallNextHookEx passes it on.
HookResult(ok) == IF ok THEN "suppress" ELSE "pass"

\* A hook that returns after a failed relocation without the tracking update.
FailedRelocationKeepsState(f) == UNCHANGED <<g_lastMonitor, g_lastPos>>

\* After a relocation that failed the hook falls through to the label done.
FailedRelocation(f) == TrackingUpdate(f.pt)

\* A hook that clears the flag only after a relocation that succeeded.
SuppressingKeptOnFailure(ok) == ~ok

\* g_suppressing after the SetCursorPos call: cleared on the next line,
\* whatever the call returned.
SuppressingAfterCall(ok) == FALSE

\* SetCursorPos returns ok to the suspended invocation, which runs to its
\* return.
SetCursorPosReturn(ok) ==
  /\ stack # <<>>
  /\ LET f == stack[Len(stack)]
     IN  /\ stack' = SubSeq(stack, 1, Len(stack) - 1)
         /\ g_suppressing' = SuppressingAfterCall(ok)
         /\ last' = [f.ev EXCEPT !.path = IF ok THEN "relocok" ELSE "relocfail",
                                 !.ret = HookResult(ok), !.pt = f.pt,
                                 !.mapped = f.mapped]
         /\ IF ok
            THEN /\ \E m \in RelocatedMonitor(f) : g_lastMonitor' = m
                 /\ g_lastPos' = RelocatedPos(f)
            ELSE FailedRelocation(f)
  /\ UNCHANGED <<displays, g_monitors, g_topoSignature, pc, enumerated, relocs,
                 afterChanged, args, ret>>

\* MouseHookProc for any other mouse message: passed on, nothing touched.
OtherMouseMessage ==
  /\ pc = "running"
  /\ UNCHANGED vars

\* ------------------------------------------- the geometry functions alone
\* Arguments and result of one call of RemapCursor or FindExitEdge.
NoArgs ==
  [fn |-> "none", src |-> Rect(0, 0, 0, 0), dst |-> Rect(0, 0, 0, 0),
   edge |-> "None", hit |-> <<0, 1>>, p0 |-> Point(0, 0), p1 |-> Point(0, 0)]

NoRet ==
  [done |-> FALSE, ok |-> FALSE, out |-> Point(0, 0), edge |-> "None",
   t |-> <<2, 1>>, coord |-> <<0, 1>>]

Edges == {"None", "Left", "Right", "Top", "Bottom"}

\* Source rectangles with extent 0, 1 and GeomMax on each axis,
\* destination rectangles with every extent from negative to GeomMax, hit
\* coordinates in steps of one half from below to above the source extent.
SrcRects == { Rect(0, 0, r, b) : r, b \in {0, 1, GeomMax} }
DstRects ==
  { Rect(l, t, r, b) : l, t \in 0..(GeomMax - 1), r, b \in 0..GeomMax }
HitCoords == { <<n, 2>> : n \in (-1)..(2 * GeomMax + 1) }

\* The two displays of a 1920x1080 primary with a 640x1440 neighbour on its
\* right, left through the middle of the shared edge.
WideCall ==
  [NoArgs EXCEPT !.fn = "RemapCursor", !.src = Rect(0, 0, 1920, 1080),
                 !.dst = Rect(1920, 0, 2560, 1440), !.edge = "Right",
                 !.hit = <<540, 1>>]

RemapCalls ==
  { [NoArgs EXCEPT !.fn = "RemapCursor", !.src = s, !.dst = d, !.edge = e,
                   !.hit = h] :
      s \in SrcRects, d \in DstRects, e \in Edges, h \in HitCoords }
  \cup {WideCall}

\* Rectangles with positive extent and segments between the points of a grid
\* that reaches one unit beyond them.
ExitRects == { Rect(0, 0, r, b) : r, b \in 1..GeomMax }
SegPoints == { Point(x, y) : x, y \in (-1)..(GeomMax + 1) }

\* A diagonal move through the bottom right corner of a 100x100 rectangle.
CornerCall ==
  [NoArgs EXCEPT !.fn = "FindExitEdge", !.src = Rect(0, 0, 100, 100),
                 !.p0 = Point(95, 95), !.p1 = Point(105, 105)]

ExitCalls ==
  { [NoArgs EXCEPT !.fn = "FindExitEdge", !.src = rc, !.p0 = a, !.p1 = b] :
      rc \in ExitRects, a \in SegPoints, b \in SegPoints }
  \cup {CornerCall}

\* ------------------------------------------------------------ specification
Init ==
  /\ displays \in Layouts
  /\ g_monitors = <<>>
  /\ g_topoSignature = <<>>
  /\ g_lastMonitor = NULL
  /\ g_lastPos = UnknownPos
  /\ g_suppressing = FALSE
  /\ pc = "start"
  /\ stack = <<>>
  /\ enumerated = <<>>
  /\ last = NoEvent
  /\ relocs = 0
  /\ afterChanged = "no"
  /\ args = NoArgs
  /\ ret = NoRet

Next ==
  \/ Main
  \/ WndProc
  \/ DisplayChange
  \/ \E pt \in Points, injected \in BOOLEAN : MouseHookProc(pt, injected)
  \/ \E ok \in BOOLEAN : SetCursorPosReturn(ok)
  \/ OtherMouseMessage

Spec == Init /\ [][Next]_vars

\* The geometry functions called on their own, once per behaviour, with the
\* program at rest.
GeomInit ==
  /\ displays = {}
  /\ g_monitors = <<>>
  /\ g_topoSignature = <<>>
  /\ g_lastMonitor = NULL
  /\ g_lastPos = UnknownPos
  /\ g_suppressing = FALSE
  /\ pc = "start"
  /\ stack = <<>>
  /\ enumerated = <<>>
  /\ last = NoEvent
  /\ relocs = 0
  /\ afterChanged = "no"
  /\ args \in RemapCalls \cup ExitCalls
  /\ ret = NoRet

program == <<displays, g_monitors, g_topoSignature, g_lastMonitor, g_lastPos,
             g_suppressing, pc, stack, enumerated, last, relocs, afterChanged>>

\* RemapCursor(src, dst, edge, hitCoord, out) returns.
CallRemapCursor ==
  /\ args.fn = "RemapCursor" /\ ~ret.done
  /\ \E r \in RemapCursor(args.src, args.dst, args.edge, args.hit) :
       ret' = [NoRet EXCEPT !.done = TRUE, !.ok = r.ok, !.out = r.out]
  /\ UNCHANGED <<program, args>>

\* FindExitEdge(p0, p1, rc) returns.
CallFindExitEdge ==
  /\ args.fn = "FindExitEdge" /\ ~ret.done
  /\ LET hit == FindExitEdge(args.p0, args.p1, args.src)
     IN  ret' = [NoRet EXCEPT !.done = TRUE, !.edge = hit.edge, !.t = hit.t,
                              !.coord = hit.coord]
  /\ UNCHANGED <<program, args>>

GeomNext == CallRemapCursor \/ CallFindExitEdge

GeomSpec == GeomInit /\ [][GeomNext]_vars

\* ------------------------------------------------------------------ claims
\* A step that starts a hook invocation for a move event: it ends the
\* invocation (kind "move") or suspends it in SetCursorPos (kind "call").
HookStep == last'.kind \in {"move", "call"} /\ Len(stack') >= Len(stack)

\* C1: a move event with the injected flag set is passed through, asks for
\* no relocation and leaves last-known display, last-known position and the
\* suppression flag as they were, also when its position would make a
\* crossing that remaps.
C1_InjectedPassThrough ==
  [][(HookStep /\ last'.injected) =>
       /\ last'.kind = "move"
       /\ last'.ret = "pass"
       /\ stack' = stack
       /\ UNCHANGED <<g_lastMonitor, g_lastPos, g_suppressing>>]_vars

\* A top-level injected event was handled whose position would have remapped.
C1_Witness ==
  /\ last.kind = "move" /\ last.injected /\ ~last.nested
  /\ last.would /\ last.ret = "pass"
  /\ g_lastMonitor # NULL

\* C2: a hook invocation nested in the relocation call, injected or not, asks
\* for no relocation, leaves last-known display and position alone and passes
\* the event; so at most one invocation is ever suspended in SetCursorPos and
\* a top-level move event causes at most one relocation request.
C2_NestedNoOp ==
  [][/\ (HookStep /\ last'.nested) =>
          /\ last'.kind = "move"
          /\ last'.ret = "pass"
          /\ stack' = stack
          /\ UNCHANGED <<g_lastMonitor, g_lastPos>>
     /\ Len(stack') <= 1
     /\ relocs' <= 1]_vars

\* A nested event without the injected flag was handled whose position would
\* have remapped.
C2_Witness ==
  /\ last.kind = "move" /\ last.nested /\ ~last.injected
  /\ last.path = "suppressing" /\ last.would
  /\ Len(stack) = 1 /\ relocs = 1

\* C3: a refresh that reports "changed" leaves last-known display and position
\* unknown, and the first move event handled after it asks for no relocation
\* and is passed through.
C3_ChangedResetsTracking ==
  [][/\ (last'.kind = "refresh" /\ last'.changed) =>
          (g_lastMonitor' = NULL /\ g_lastPos' = UnknownPos)
     /\ (HookStep /\ last'.first # "no") =>
          (last'.kind = "move" /\ last'.ret = "pass" /\ stack' = stack)]_vars

\* The first event after a refresh that discarded a recorded position was
\* evaluated on a display and found no crossing.
C3_Witness ==
  /\ last.kind = "move" /\ last.first = "reset" /\ ~last.injected
  /\ last.path = "nocross"
  /\ g_lastMonitor # NULL /\ g_lastPos = last.pt

\* What a record tells of its display apart from the handle.
RecordKey(m) == [rc |-> m.rc, primary |-> m.primary, device |-> m.device]
KeyCount(s, k) == Cardinality({i \in 1..Len(s) : RecordKey(s[i]) = k})
\* The same displays (rectangle, primary flag, device name), in any order.
SameDisplays(a, b) ==
  /\ Len(a) = Len(b)
  /\ \A i \in 1..Len(a) : KeyCount(a, RecordKey(a[i])) = KeyCount(b, RecordKey(a[i]))
Records(s) == {s[i] : i \in 1..Len(s)}

\* C4: a refresh that enumerates the displays of the previous refresh
\* (rectangle, primary flag and device name of each), in any order, leaves
\* the held snapshot, the held signature, last-known display and last-known
\* position unchanged.
C4_RefreshNoOp ==
  [][(last'.kind = "refresh" /\ SameDisplays(enumerated', enumerated)) =>
       UNCHANGED <<g_monitors, g_topoSignature, g_lastMonitor, g_lastPos>>]_vars

\* C5: a refresh after the first that enumerates no display keeps the held,
\* non-empty snapshot and signature and does not reset the tracking state.
C5_EmptyEnumerationKept ==
  [][(last'.kind = "refresh" /\ pc = "running" /\ enumerated' = <<>>
        /\ g_monitors # <<>>) =>
       UNCHANGED <<g_monitors, g_topoSignature, g_lastMonitor, g_lastPos>>]_vars

\* C6: the signature a refresh computes is the signature of every other
\* enumeration order of the same records.
C6_SignatureOrderFree ==
  last.kind = "refresh" =>
    \A p \in Perms(Records(enumerated)) : BuildTopoSignature(p).sig = g_topoSignature

\* C7: signatures are equal only for equal snapshots, so after a refresh the
\* held snapshot holds exactly the records enumerated (handle, rectangle,
\* primary flag and device name).
C7_SignatureDecidesSnapshot ==
  last.kind = "refresh" => Records(g_monitors) = Records(enumerated)

\* C8: the hook returns the suppress decision exactly when it asked for a
\* relocation and SetCursorPos reported success; on every other path the
\* event is passed through.
C8_SuppressIffRelocated ==
  [][last'.kind = "move" =>
       /\ last'.ret \in {"pass", "suppress"}
       /\ (last'.ret = "suppress") <=>
            (Len(stack') < Len(stack) /\ last'.path = "relocok")]_vars

\* A relocation succeeded and the event was suppressed.
C8_Witness ==
  /\ last.kind = "move" /\ last.path = "relocok" /\ last.ret = "suppress"
  /\ stack = <<>> /\ relocs = 1

\* C9: after a relocation that succeeded the state is Tracking: last-known
\* position is the mapped point and last-known display is the display that
\* contains the mapped point.
C9_RelocatedTracking ==
  last.path = "relocok" =>
    /\ g_lastPos = last.mapped
    /\ g_lastMonitor # NULL
    /\ \E d \in displays : d.handle = g_lastMonitor /\ Contains(d.rc, last.mapped)

\* C10: when SetCursorPos fails the event is passed through, the suppression
\* flag is clear, and last-known display and position are the display that
\* contains the event position and the event position.
C10_FailedRelocationAdvances ==
  last.path = "relocfail" =>
    /\ last.ret = "pass"
    /\ ~g_suppressing
    /\ g_lastPos = last.pt
    /\ \E d \in displays : d.handle = g_lastMonitor /\ Contains(d.rc, last.pt)

\* A relocation to another point failed and the event position was recorded.
C10_Witness ==
  /\ last.kind = "move" /\ last.path = "relocfail" /\ last.ret = "pass"
  /\ last.mapped # last.pt /\ g_lastPos = last.pt /\ stack = <<>>

\* ---------------------------------------------- claims on the geometry
\* RemapCursor returned true.
Remapped == args.fn = "RemapCursor" /\ ret.done /\ ret.ok

\* C11: whenever the remap succeeds the output point lies strictly inside
\* the destination rectangle, left < x < right - 1 and top < y < bottom - 1,
\* so its perpendicular coordinate lies in [destStart + 1, destEnd - 2];
\* destinations of extent 1 or 2 included.
C11_OutputStrictlyInside ==
  Remapped =>
    /\ args.dst.left < ret.out.x /\ ret.out.x < args.dst.right - 1
    /\ args.dst.top < ret.out.y /\ ret.out.y < args.dst.bottom - 1

\* The reference value of the remap: clamp and round as mathematics has them.
RefClamp(v, lo, hi) == Max(lo, Min(v, hi))
RefRound(r) == (2 * r[1] + r[2]) \div (2 * r[2])
RefPoint(src, dst, edge, hit) ==
  LET lr == edge \in {"Left", "Right"}
      srcStart == IF lr THEN src.top ELSE src.left
      srcLen == IF lr THEN src.bottom - src.top ELSE src.right - src.left
      dstStart == IF lr THEN dst.top ELSE dst.left
      dstEnd == IF lr THEN dst.bottom ELSE dst.right
      \* (hit - srcStart) / srcLen, clamped to [0, 1]
      num == RefClamp(hit[1] - srcStart * hit[2], 0, hit[2] * srcLen)
      den == hit[2] * srcLen
      perp == RefClamp(dstStart + RefRound(<<num * (dstEnd - dstStart), den>>),
                       dstStart + 1, dstEnd - 2)
  IN  CASE edge = "Right" -> Point(dst.left + 1, perp)
        [] edge = "Left" -> Point(dst.right - 2, perp)
        [] edge = "Bottom" -> Point(perp, dst.top + 1)
        [] edge = "Top" -> Point(perp, dst.bottom - 2)

ExtentAlong(rc, edge) ==
  IF edge \in {"Left", "Right"} THEN rc.bottom - rc.top ELSE rc.right - rc.left
OverlapAlong(a, b, edge) ==
  IF edge \in {"Left", "Right"}
  THEN Min(a.bottom, b.bottom) - Max(a.top, b.top)
  ELSE Min(a.right, b.right) - Max(a.left, b.left)

\* C13: the remap fails when source and destination have zero or negative
\* overlap on the axis along the edge, when either has no positive extent on
\* that axis, and when the edge is None.
C13_RemapFails ==
  (/\ args.fn = "RemapCursor" /\ ret.done
   /\ \/ args.edge = "None"
      \/ OverlapAlong(args.src, args.dst, args.edge) <= 0
      \/ ExtentAlong(args.src, args.edge) <= 0
      \/ ExtentAlong(args.dst, args.edge) <= 0)
  => ~ret.ok

\* Two rectangles of positive extent with a gap between them were refused.
C13_Witness ==
  /\ args.fn = "RemapCursor" /\ ret.done /\ ~ret.ok /\ args.edge = "Right"
  /\ ExtentAlong(args.src, args.edge) > 0 /\ ExtentAlong(args.dst, args.edge) > 0
  /\ OverlapAlong(args.src, args.dst, args.edge) < 0

\* FindExitEdge returned for a segment that starts on the left boundary of
\* the rectangle, corners included.
FromLeftBoundary ==
  /\ args.fn = "FindExitEdge" /\ ret.done
  /\ args.p0.x = args.src.left
  /\ args.src.top <= args.p0.y /\ args.p0.y <= args.src.bottom

SegDx == args.p1.x - args.p0.x
SegDy == args.p1.y - args.p0.y

\* C14 as stated: from a start point on the left boundary, corners included,
\* a segment with dx < 0 exits Left and a segment with dx > 0 never does.
C14_LeftBoundaryOutward ==
  FromLeftBoundary =>
    /\ SegDx < 0 => ret.edge = "Left"
    /\ SegDx > 0 => ret.edge # "Left"

\* C14: from a start point on the left boundary a segment with dx < 0 exits
\* Left, except from a corner with |dy| > |dx| and dy pointing out of the
\* rectangle, where it exits through Top or Bottom; a segment with dx > 0
\* never exits Left.
C14_LeftBoundaryOutwardOffCorner ==
  FromLeftBoundary =>
    /\ SegDx < 0 =>
         ret.edge = IF Abs(SegDy) > Abs(SegDx) /\ SegDy < 0
                       /\ args.p0.y = args.src.top THEN "Top"
                    ELSE IF Abs(SegDy) > Abs(SegDx) /\ SegDy > 0
                            /\ args.p0.y = args.src.bottom THEN "Bottom"
                    ELSE "Left"
    /\ SegDx > 0 => ret.edge # "Left"

\* A segment left the rectangle leftward from a corner and exited Left.
C14_Witness ==
  /\ FromLeftBoundary /\ SegDx < 0 /\ SegDy > 0
  /\ args.p0.y = args.src.bottom /\ ret.edge = "Left"

\* The best hit after boundary e alone is tested against best.
TestEdge(best, e) ==
  LET rc == args.src
  IN  CASE e = "Right" -> EdgeStep(best, e, TRUE, rc.right, rc.top, rc.bottom,
                                   args.p0, SegDx, SegDy)
        [] e = "Left" -> EdgeStep(best, e, TRUE, rc.left, rc.top, rc.bottom,
                                  args.p0, SegDx, SegDy)
        [] e = "Bottom" -> EdgeStep(best, e, FALSE, rc.bottom, rc.left, rc.right,
                                    args.p0, SegDx, SegDy)
        [] e = "Top" -> EdgeStep(best, e, FALSE, rc.top, rc.left, rc.right,
                                 args.p0, SegDx, SegDy)

\* The result when the four boundaries are tested in the order o.
TestedInOrder(o) ==
  TestEdge(TestEdge(TestEdge(TestEdge(NoHit, o[1]), o[2]), o[3]), o[4])

\* The segment crosses boundary e at an accepted point.
Crosses(e) == TestEdge(NoHit, e).edge = e
CrossingT(e) == TestEdge(NoHit, e).t

\* The segment's first accepted crossing is of h and v at once.
CornerExit(h, v) ==
  /\ Crosses(h) /\ Crosses(v) /\ RatEq(CrossingT(h), CrossingT(v))
  /\ \A e \in Edges \ {"None"} : Crosses(e) => RatLe(CrossingT(h), CrossingT(e))

\* C15: when the segment leaves through a corner, crossing a Left or Right
\* boundary and a Top or Bottom boundary at the same t, FindExitEdge reports
\* the Left or Right boundary if |dx| >= |dy| and the Top or Bottom boundary
\* if |dy| > |dx|, in whatever order the four boundaries are tested; for
\* (95,95) to (105,105) on (0,0,100,100) it reports Right.
C15_CornerTieBreak ==
  /\ (args.fn = "FindExitEdge" /\ ret.done) =>
       \A h \in {"Left", "Right"}, v \in {"Top", "Bottom"} :
         CornerExit(h, v) =>
           LET e == IF Abs(SegDx) >= Abs(SegDy) THEN h ELSE v
           IN  /\ ret.edge = e
               /\ \A o \in Perms(Edges \ {"None"}) : TestedInOrder(o).edge = e
  /\ (args = CornerCall /\ ret.done) => ret.edge = "Right"

\* The diagonal through the corner of the 100x100 rectangle exited Right.
C15_Witness ==
  /\ args = CornerCall /\ ret.done /\ ret.edge = "Right"
  /\ CornerExit("Right", "Bottom")

\* A steep segment through a corner exited through the horizontal boundary.
C15_WitnessSteep ==
  /\ args.fn = "FindExitEdge" /\ ret.done /\ ret.edge = "Bottom"
  /\ CornerExit("Right", "Bottom") /\ Abs(SegDy) > Abs(SegDx)

\* FindExitEdge returned for a segment that moves strictly rightward across
\* the line x = right within the vertical extent of the rectangle.
RightwardAcross ==
  /\ args.fn = "FindExitEdge" /\ ret.done
  /\ SegDx > 0 /\ SegDy = 0
  /\ args.p0.x <= args.src.right /\ args.src.right <= args.p1.x
  /\ args.src.top <= args.p0.y /\ args.p0.y <= args.src.bottom

\* C16 as stated: a segment moving strictly rightward across x = right exits
\* Right, wherever it starts.
C16_RightwardExitsRight == RightwardAcross => ret.edge = "Right"

\* C16: a segment moving strictly rightward across x = right exits Right if
\* it starts at or right of the left boundary; if it starts left of the
\* rectangle the first boundary it crosses, Left, is reported.
C16_RightwardFirstCrossing ==
  RightwardAcross =>
    ret.edge = IF args.p0.x < args.src.left THEN "Left" ELSE "Right"

\* A rightward segment from inside the rectangle exited Right.
C16_Witness ==
  /\ RightwardAcross /\ ret.edge = "Right"
  /\ args.src.left < args.p0.x /\ args.p0.x < args.src.right

\* -------------------------------------------------- claims on the hook
\* A step that handles a move event at a known point past both guards.
UnguardedStep ==
  HookStep /\ ~last'.injected /\ ~g_suppressing /\ last'.pt # UnknownPos

\* C17: a move event that is not injected and not suppressed, at a point that
\* lies in no display, is passed through, asks for no relocation and leaves
\* last-known display and last-known position as they were.
C17_NoDisplayPassThrough ==
  [][(UnguardedStep /\ \A d \in displays : ~Contains(d.rc, last'.pt))
       => /\ last'.kind = "move" /\ last'.ret = "pass"
          /\ UNCHANGED <<g_lastMonitor, g_lastPos, stack>>]_vars

\* The hook was in state Tracking when an event arrived at a point that lies
\* in no display.
C17_Witness ==
  /\ last.kind = "move" /\ last.path = "miss" /\ ~last.injected
  /\ \A d \in displays : ~Contains(d.rc, last.pt)
  /\ g_lastMonitor # NULL /\ g_lastPos # UnknownPos /\ g_lastPos # last.pt

\* The conditions under which the hook at point p may ask for a relocation
\* to mapped.
RelocationConditions(p, mapped) ==
  /\ g_lastMonitor # NULL /\ g_lastPos # UnknownPos
  /\ \E d \in MonitorFromPoint(p) :
       /\ d # NULL /\ d # g_lastMonitor
       /\ FindMonitor(g_lastMonitor) # 0 /\ FindMonitor(d) # 0
       /\ LET src == g_monitors[FindMonitor(g_lastMonitor)].rc
              dst == g_monitors[FindMonitor(d)].rc
              hit == FindExitEdge(g_lastPos, p, src)
          IN  /\ hit.edge # "None"
              /\ \E r \in RemapCursor(src, dst, hit.edge, hit.coord) :
                   r.ok /\ r.out # p /\ r.out = mapped

\* C18: for a move event that is not injected and not suppressed, at a point
\* p inside a display d, the hook asks for a relocation only if the state is
\* Tracking, the last-known display differs from d, both are in the snapshot,
\* an exit edge is found, the remap succeeds and the mapped point differs
\* from p; in every other case it asks for none, passes the event on and the
\* state becomes last-known display d, last-known position p.
C18_RelocationOnlyOnCrossing ==
  [][(UnguardedStep /\ \E d \in displays : Contains(d.rc, last'.pt))
       => IF last'.kind = "call"
          THEN RelocationConditions(last'.pt, last'.mapped)
          ELSE /\ last'.ret = "pass" /\ stack' = stack
               /\ g_lastPos' = last'.pt
               /\ g_lastMonitor' \in MonitorFromPoint(last'.pt)]_vars

\* The hook suspended in the SetCursorPos call it asked for.
C18_Witness ==
  /\ last.kind = "call" /\ ~last.injected /\ last.mapped # last.pt
  /\ stack # <<>> /\ g_lastMonitor # NULL
  /\ g_lastMonitor \notin MonitorFromPoint(last.pt)

\* The hook crossed to another display without asking for a relocation.
C18_WitnessAdvance ==
  /\ last.kind = "move" /\ last.path \in {"samepoint", "noedge", "remapfail"}
  /\ g_lastPos = last.pt /\ g_lastMonitor \in MonitorFromPoint(last.pt)

\* C19: last-known display and last-known position are both absent or both
\* present; the state is never half-set.
C19_NeverHalfSet ==
  (g_lastMonitor = NULL) <=> (g_lastPos = UnknownPos)

\* C20: the suppression flag is set only inside the hook's own SetCursorPos
\* call: it is false whenever a top-level invocation starts or returns and
\* whenever the snapshot is refreshed, and only a nested invocation is ever
\* skipped because of it.
C20_SuppressingOnlyInsideCall ==
  /\ g_suppressing <=> stack # <<>>
  /\ last.kind = "refresh" => ~g_suppressing
  /\ last.path = "suppressing" => last.nested

\* A top-level invocation returned after SetCursorPos failed, the flag clear.
C20_Witness ==
  /\ last.path = "relocfail" /\ ~last.nested /\ relocs = 1
  /\ ~g_suppressing /\ stack = <<>>

====
